---- MODULE Spec2Model ----
(***************************************************************************)
(* MatPaginator (src/lib/paginator/paginator.ts): the pagination state,    *)
(* its property setters, its lifecycle hook ngOnInit and its navigation    *)
(* operations, with the PageEvents each call emits on the `page` output.   *)
(*                                                                         *)
(* JavaScript numbers are modelled as records [k, v]: k is "number" for a  *)
(* finite integer v, "Infinity" for +/-Infinity (v is the sign), "NaN",    *)
(* or "undefined" for a field that was never assigned.                     *)
(***************************************************************************)
EXTENDS Integers, Sequences, FiniteSets, TLC

\* ---------------------------------------------------------------- bounds
\* Largest |pageIndex| the model follows (operations that would leave the
\* range with a finite index are not taken).
MaxPageIndex == 4
\* Largest length an external assignment gives.
MaxLength == 3
\* Largest page size an external assignment, an option or changePageSize gives.
MaxPageSize == 2
\* Longest pageSizeOptions array an external assignment gives.
MaxOptions == 2

\* ------------------------------------------------------ program constants
DEFAULT_PAGE_SIZE == 50

\* ------------------------------------------------------ JavaScript values
Num(n) == [k |-> "number", v |-> n]
NaN == [k |-> "NaN", v |-> 0]
Undefined == [k |-> "undefined", v |-> 0]
PosInfinity == [k |-> "Infinity", v |-> 1]
NegInfinity == [k |-> "Infinity", v |-> -1]

IsFinite(x) == x.k = "number"
IsInfinite(x) == x.k = "Infinity"
\* ToNumber(undefined) is NaN.
IsNaN(x) == x.k \in {"NaN", "undefined"}

Sign(n) == IF n < 0 THEN -1 ELSE 1
Inf(s) == IF s < 0 THEN NegInfinity ELSE PosInfinity

\* !x
Falsy(x) == IsNaN(x) \/ (IsFinite(x) /\ x.v = 0)

\* x != 0 (loose inequality: undefined != 0 and NaN != 0 are true)
NotEqZero(x) == ~(IsFinite(x) /\ x.v = 0)

\* a < b
JsLt(a, b) ==
    IF IsNaN(a) \/ IsNaN(b) THEN FALSE
    ELSE IF IsInfinite(a) THEN a.v < 0 /\ ~(IsInfinite(b) /\ b.v < 0)
    ELSE IF IsInfinite(b) THEN b.v > 0
    ELSE a.v < b.v

\* a >= b
JsGe(a, b) ==
    IF IsNaN(a) \/ IsNaN(b) THEN FALSE
    ELSE a = b \/ JsLt(b, a)

\* a * b
JsMul(a, b) ==
    IF IsNaN(a) \/ IsNaN(b) THEN NaN
    ELSE IF IsInfinite(a) \/ IsInfinite(b)
         THEN IF (IsFinite(a) /\ a.v = 0) \/ (IsFinite(b) /\ b.v = 0)
              THEN NaN
              ELSE Inf(Sign(a.v) * Sign(b.v))
    ELSE Num(a.v * b.v)

\* a + n, n a finite integer
JsAdd(a, n) ==
    IF IsNaN(a) THEN NaN
    ELSE IF IsInfinite(a) THEN a
    ELSE Num(a.v + n)

\* floor and ceiling of the quotient of two integers, d # 0
FloorQuot(n, d) == IF d > 0 THEN n \div d ELSE (0 - n) \div (0 - d)
CeilQuot(n, d) == 0 - FloorQuot(0 - n, d)

\* a / b when the quotient is not a finite number, else the argument `fin`
DivOr(a, b, fin) ==
    IF IsNaN(a) \/ IsNaN(b) THEN NaN
    ELSE IF IsInfinite(a)
         THEN IF IsInfinite(b) THEN NaN ELSE Inf(a.v * Sign(b.v))
    ELSE IF IsInfinite(b) THEN Num(0)
    ELSE IF b.v = 0
         THEN IF a.v = 0 THEN NaN ELSE Inf(Sign(a.v))
    ELSE fin

\* Math.floor(a / b)
FloorDiv(a, b) ==
    DivOr(a, b, IF IsFinite(a) /\ IsFinite(b) /\ b.v # 0
                THEN Num(FloorQuot(a.v, b.v)) ELSE NaN)

\* Math.ceil(a / b)
CeilDiv(a, b) ==
    DivOr(a, b, IF IsFinite(a) /\ IsFinite(b) /\ b.v # 0
                THEN Num(CeilQuot(a.v, b.v)) ELSE NaN)

\* coerceNumberProperty(value): a value that is not a number becomes 0
coerceNumberProperty(value) == IF IsNaN(value) THEN Num(0) ELSE value

\* ------------------------------------------------------------------ state
VARIABLES
    initialized,              \* _initialized
    pageIndex,                \* _pageIndex
    length,                   \* _length
    pageSize,                 \* _pageSize
    pageSizeOptions,          \* _pageSizeOptions
    displayedPageSizeOptions, \* _displayedPageSizeOptions: [set, items]
    intlChanges,              \* _intlChanges: the Subscription, "open" or "closed"
    intlObservers,            \* observers the component has on _intl.changes
    page,                     \* PageEvents the last call emitted on `page`
    op,                       \* the last call: [name, arg]
    pre                       \* the component's fields when that call began

vars == <<initialized, pageIndex, length, pageSize, pageSizeOptions,
          displayedPageSizeOptions, intlChanges, intlObservers, page, op, pre>>

\* The component's fields, and its observers on _intl.changes, as one record.
This ==
    [initialized |-> initialized,
     pageIndex |-> pageIndex,
     length |-> length,
     pageSize |-> pageSize,
     pageSizeOptions |-> pageSizeOptions,
     displayedPageSizeOptions |-> displayedPageSizeOptions,
     intlChanges |-> intlChanges,
     intlObservers |-> intlObservers]

Unset == [set |-> FALSE, items |-> <<>>]
Items(s) == [set |-> TRUE, items |-> s]

\* ------------------------------------------------------- external inputs
\* Values a host assigns to pageIndex (undefined stands for any non-number).
PageIndexInputs == {Undefined} \cup {Num(i) : i \in -1..MaxPageIndex}
\* Values a host assigns to length.
LengthInputs == {Undefined} \cup {Num(i) : i \in 0..MaxLength}
\* Values a host assigns to pageSize or passes to _changePageSize.
PageSizeInputs == {Undefined} \cup {Num(i) : i \in 0..MaxPageSize}
PageSizeChoices == {Num(i) : i \in 0..MaxPageSize}
\* Arrays a host assigns to pageSizeOptions: unsorted, duplicates allowed,
\* and two arrays with an entry that is not a number.
PageSizeOptionsInputs ==
    UNION {[1..n -> PageSizeChoices] : n \in 0..MaxOptions}
        \cup {<<Undefined>>, <<Num(1), Undefined>>}
\* A few of them: none, a first entry 0, an unsorted pair.
FewPageSizeOptions == {<<>>, <<Num(0)>>, <<Num(MaxPageSize), Num(1)>>}

\* ---------------------------------------------------------------- helpers
\* array.map(p => coerceNumberProperty(p))
MapCoerce(seq) == [i \in 1..Len(seq) |-> coerceNumberProperty(seq[i])]

\* array.indexOf(x) != -1
Includes(seq, x) == \E i \in 1..Len(seq) : seq[i] = x

\* the comparator (a, b) => a - b is positive: a sorts after b
After(a, b) == JsLt(b, a)

\* array.sort((a, b) => a - b), as an insertion sort
RECURSIVE InsertSorted(_, _)
InsertSorted(x, seq) ==
    IF seq = <<>> THEN <<x>>
    ELSE IF After(x, Head(seq))
         THEN <<Head(seq)>> \o InsertSorted(x, Tail(seq))
         ELSE <<x>> \o seq

\* A faulty SortNumbers: the array is left in the order given.
SortNumbersOmitted(seq) == seq

RECURSIVE SortNumbers(_)
SortNumbers(seq) ==
    IF seq = <<>> THEN <<>>
    ELSE InsertSorted(Head(seq), SortNumbers(Tail(seq)))

\* ------------------------------------------- the component, on a record s
\* A faulty updateDisplayedPageSizeOptions: a falsy pageSize is kept.
updateDisplayedPageSizeOptionsNoDefault(s) ==
    IF ~s.initialized THEN s
    ELSE LET copy == s.pageSizeOptions
             withSize == IF ~Includes(copy, s.pageSize)
                         THEN Append(copy, s.pageSize)
                         ELSE copy
         IN [s EXCEPT !.displayedPageSizeOptions =
                            Items(SortNumbers(withSize))]

\* A faulty updateDisplayedPageSizeOptions: the _initialized check is missing.
updateDisplayedPageSizeOptionsAlways(s) ==
    LET size == IF Falsy(s.pageSize)
                THEN IF Len(s.pageSizeOptions) # 0
                     THEN s.pageSizeOptions[1]
                     ELSE Num(DEFAULT_PAGE_SIZE)
                ELSE s.pageSize
        withSize == IF ~Includes(s.pageSizeOptions, size)
                    THEN Append(s.pageSizeOptions, size)
                    ELSE s.pageSizeOptions
    IN [s EXCEPT !.pageSize = size,
                 !.displayedPageSizeOptions = Items(SortNumbers(withSize))]

\* _updateDisplayedPageSizeOptions()
updateDisplayedPageSizeOptions(s) ==
    IF ~s.initialized THEN s
    ELSE LET size == IF Falsy(s.pageSize)
                     THEN IF Len(s.pageSizeOptions) # 0
                          THEN s.pageSizeOptions[1]
                          ELSE Num(DEFAULT_PAGE_SIZE)
                     ELSE s.pageSize
             copy == s.pageSizeOptions
             withSize == IF ~Includes(copy, size)
                         THEN Append(copy, size)
                         ELSE copy
         IN [s EXCEPT !.pageSize = size,
                      !.displayedPageSizeOptions = Items(SortNumbers(withSize))]

\* set pageIndex(value)
setPageIndex(s, value) ==
    [s EXCEPT !.pageIndex = coerceNumberProperty(value)]

\* A faulty setLength: a pageIndex beyond the new last page is pulled back.
setLengthClamped(s, value) ==
    LET t == [s EXCEPT !.length = coerceNumberProperty(value)]
        last == JsAdd(CeilDiv(t.length, t.pageSize), -1)
    IN IF JsLt(last, t.pageIndex) /\ JsGe(last, Num(0))
       THEN [t EXCEPT !.pageIndex = last]
       ELSE t

\* set length(value)
setLength(s, value) ==
    [s EXCEPT !.length = coerceNumberProperty(value)]

\* A faulty pageSize setter: the displayed options are not updated.
setPageSizeNoUpdate(s, value) ==
    [s EXCEPT !.pageSize = coerceNumberProperty(value)]

\* set pageSize(value)
setPageSize(s, value) ==
    updateDisplayedPageSizeOptions(
        [s EXCEPT !.pageSize = coerceNumberProperty(value)])

\* set pageSizeOptions(value); given = FALSE is a null or undefined value
setPageSizeOptions(s, given, value) ==
    updateDisplayedPageSizeOptions(
        [s EXCEPT !.pageSizeOptions =
            MapCoerce(IF given THEN value ELSE <<>>)])

\* A faulty getNumberOfPages: the number of pages, not the last index.
getNumberOfPagesCount(s) == CeilDiv(s.length, s.pageSize)

\* A faulty getNumberOfPages: Math.floor in place of Math.ceil.
getNumberOfPagesFloor(s) == JsAdd(FloorDiv(s.length, s.pageSize), -1)

\* getNumberOfPages()
getNumberOfPages(s) == JsAdd(CeilDiv(s.length, s.pageSize), -1)

\* A faulty hasPreviousPage: the pageSize check is missing.
hasPreviousPageAnySize(s) == JsGe(s.pageIndex, Num(1))

\* hasPreviousPage()
hasPreviousPage(s) == JsGe(s.pageIndex, Num(1)) /\ NotEqZero(s.pageSize)

\* A faulty hasNextPage: <= in place of <.
hasNextPageInclusive(s) ==
    LET numberOfPages == getNumberOfPages(s)
    IN JsGe(numberOfPages, s.pageIndex) /\ NotEqZero(s.pageSize)

\* hasNextPage()
hasNextPage(s) ==
    LET numberOfPages == getNumberOfPages(s)
    IN JsLt(s.pageIndex, numberOfPages) /\ NotEqZero(s.pageSize)

\* The PageEvent _emitPageEvent() emits.
PageEvent(s) ==
    [pageIndex |-> s.pageIndex, pageSize |-> s.pageSize, length |-> s.length]

\* What a call returns to the model: the fields after it and what it emitted.
Silent(s) == [this |-> s, page |-> <<>>]
emitPageEvent(s) == [this |-> s, page |-> <<PageEvent(s)>>]

\* ngOnInit()
ngOnInit(s) ==
    Silent(updateDisplayedPageSizeOptions([s EXCEPT !.initialized = TRUE]))

\* A faulty nextPage: the event is not emitted.
nextPageSilent(s) ==
    IF ~hasNextPage(s) THEN Silent(s)
    ELSE Silent(setPageIndex(s, JsAdd(s.pageIndex, 1)))

\* A faulty ngOnDestroy: the subscription is left as it is.
ngOnDestroyKeepsSubscription(s) == Silent(s)

\* ngOnDestroy(): _intlChanges.unsubscribe() removes the observer of an open
\* subscription and closes it; on a closed subscription it does nothing.
ngOnDestroy(s) ==
    IF s.intlChanges = "open"
    THEN Silent([s EXCEPT !.intlChanges = "closed",
                          !.intlObservers = s.intlObservers - 1])
    ELSE Silent(s)

\* The observer given to _intl.changes.subscribe: markForCheck() only.
intlChanged(s) == Silent(s)

\* nextPage()
nextPage(s) ==
    IF ~hasNextPage(s) THEN Silent(s)
    ELSE emitPageEvent(setPageIndex(s, JsAdd(s.pageIndex, 1)))

\* A faulty previousPage: it goes to page 0.
previousPageToFirst(s) ==
    IF ~hasPreviousPage(s) THEN Silent(s)
    ELSE emitPageEvent(setPageIndex(s, Num(0)))

\* A faulty previousPage: the new pageIndex is clamped to the last page.
previousPageClamped(s) ==
    LET prev == JsAdd(s.pageIndex, -1)
    IN IF ~hasPreviousPage(s) THEN Silent(s)
       ELSE emitPageEvent(setPageIndex(s,
                IF JsLt(getNumberOfPages(s), prev)
                THEN getNumberOfPages(s) ELSE prev))

\* A faulty previousPage: the early return is missing.
previousPageUnguarded(s) ==
    emitPageEvent(setPageIndex(s, JsAdd(s.pageIndex, -1)))

\* previousPage()
previousPage(s) ==
    IF ~hasPreviousPage(s) THEN Silent(s)
    ELSE emitPageEvent(setPageIndex(s, JsAdd(s.pageIndex, -1)))

\* A faulty firstPage: the first page is taken to be page 1.
firstPageOneBased(s) ==
    IF ~hasPreviousPage(s) THEN Silent(s)
    ELSE emitPageEvent(setPageIndex(s, Num(1)))

\* firstPage()
firstPage(s) ==
    IF ~hasPreviousPage(s) THEN Silent(s)
    ELSE emitPageEvent(setPageIndex(s, Num(0)))

\* A faulty lastPage: the early return is missing.
lastPageUnguarded(s) ==
    emitPageEvent(setPageIndex(s, getNumberOfPages(s)))

\* lastPage()
lastPage(s) ==
    IF ~hasNextPage(s) THEN Silent(s)
    ELSE emitPageEvent(setPageIndex(s, getNumberOfPages(s)))

\* A faulty NewPageIndex: the page is reset to 0.
NewPageIndexReset(startIndex, size) == Num(0)

\* Math.floor(startIndex / pageSize) || 0
NewPageIndex(startIndex, size) ==
    LET q == FloorDiv(startIndex, size)
    IN IF Falsy(q) THEN Num(0) ELSE q

\* A faulty changePageSize: the event is emitted before pageSize is assigned.
changePageSizeEmitsEarly(s, size) ==
    LET startIndex == JsMul(s.pageIndex, s.pageSize)
        moved == setPageIndex(s, NewPageIndex(startIndex, size))
    IN [this |-> setPageSize(moved, size), page |-> <<PageEvent(moved)>>]

\* A faulty changePageSize: startIndex is computed with the new page size.
changePageSizeNewSizeStart(s, size) ==
    LET startIndex == JsMul(s.pageIndex, size)
        moved == setPageIndex(s, NewPageIndex(startIndex, size))
    IN emitPageEvent(setPageSize(moved, size))

\* A faulty _changePageSize: it returns early when the size is unchanged.
changePageSizeSkipsSame(s, size) ==
    LET startIndex == JsMul(s.pageIndex, s.pageSize)
        moved == setPageIndex(s, NewPageIndex(startIndex, size))
    IN IF size = s.pageSize THEN Silent(s)
       ELSE emitPageEvent(setPageSize(moved, size))

\* _changePageSize(pageSize)
changePageSize(s, size) ==
    LET startIndex == JsMul(s.pageIndex, s.pageSize)
        moved == setPageIndex(s, NewPageIndex(startIndex, size))
    IN emitPageEvent(setPageSize(moved, size))

\* ---------------------------------------------------------------- actions
\* The model follows finite page indexes up to MaxPageIndex in size.
Followed(s) ==
    IsFinite(s.pageIndex) =>
        s.pageIndex.v \in (0 - MaxPageIndex)..MaxPageIndex

\* One call of the component: r is what the call returns.
Call(name, arg, r) ==
    /\ initialized' = r.this.initialized
    /\ pageIndex' = r.this.pageIndex
    /\ length' = r.this.length
    /\ pageSize' = r.this.pageSize
    /\ pageSizeOptions' = r.this.pageSizeOptions
    /\ displayedPageSizeOptions' = r.this.displayedPageSizeOptions
    /\ intlChanges' = r.this.intlChanges
    /\ intlObservers' = r.this.intlObservers
    /\ page' = r.page
    /\ op' = [name |-> name, arg |-> arg]
    /\ pre' = This

Init ==
    /\ initialized = FALSE
    /\ pageIndex = Num(0)
    /\ length = Num(0)
    /\ pageSize = Undefined
    /\ pageSizeOptions = <<>>
    /\ displayedPageSizeOptions = Unset
    /\ intlChanges = "open"
    /\ intlObservers = 1
    /\ page = <<>>
    /\ op = [name |-> "constructor", arg |-> Undefined]
    /\ pre = This

\* Angular calls ngOnInit once.
NgOnInit ==
    /\ ~initialized
    /\ Call("ngOnInit", Undefined, ngOnInit(This))

NgOnDestroy ==
    LET r == ngOnDestroy(This)
    IN /\ Followed(r.this)
       /\ Call("ngOnDestroy", Undefined, r)

\* _intl.changes emits: each observer the component has there is run.
IntlChanges ==
    LET r == intlChanged(This)
    IN /\ intlObservers > 0
       /\ Call("_intl.changes", Undefined, r)

SetPageIndex ==
    \E value \in PageIndexInputs :
        LET r == Silent(setPageIndex(This, value))
        IN /\ Followed(r.this)
           /\ Call("pageIndex", value, r)

SetLength ==
    \E value \in LengthInputs :
        LET r == Silent(setLength(This, value))
        IN /\ Followed(r.this)
           /\ Call("length", value, r)

SetPageSize ==
    \E value \in PageSizeInputs :
        LET r == Silent(setPageSize(This, value))
        IN /\ Followed(r.this)
           /\ Call("pageSize", value, r)

\* An assignment of one of a few arrays, or of null (given = FALSE).
SetPageSizeOptions ==
    \E given \in BOOLEAN :
        \E value \in (IF given THEN FewPageSizeOptions ELSE {<<>>}) :
            LET r == Silent(setPageSizeOptions(This, given, value))
            IN /\ Followed(r.this)
               /\ Call("pageSizeOptions", Undefined, r)

\* An assignment of any array of up to MaxOptions entries, or of null.
SetAnyPageSizeOptions ==
    \E given \in BOOLEAN :
        \E value \in (IF given THEN PageSizeOptionsInputs ELSE {<<>>}) :
            LET r == Silent(setPageSizeOptions(This, given, value))
            IN /\ Followed(r.this)
               /\ Call("pageSizeOptions", Undefined, r)

NextPage ==
    LET r == nextPage(This)
    IN /\ Followed(r.this)
       /\ Call("nextPage", Undefined, r)

PreviousPage ==
    LET r == previousPage(This)
    IN /\ Followed(r.this)
       /\ Call("previousPage", Undefined, r)

FirstPage ==
    LET r == firstPage(This)
    IN /\ Followed(r.this)
       /\ Call("firstPage", Undefined, r)

LastPage ==
    LET r == lastPage(This)
    IN /\ Followed(r.this)
       /\ Call("lastPage", Undefined, r)

ChangePageSize ==
    \E size \in PageSizeChoices :
        LET r == changePageSize(This, size)
        IN /\ Followed(r.this)
           /\ Call("_changePageSize", size, r)

\* The whole component, with a few pageSizeOptions arrays.
Next ==
    \/ NgOnInit
    \/ NgOnDestroy
    \/ IntlChanges
    \/ SetPageIndex
    \/ SetLength
    \/ SetPageSize
    \/ SetPageSizeOptions
    \/ NextPage
    \/ PreviousPage
    \/ FirstPage
    \/ LastPage
    \/ ChangePageSize

Spec == Init /\ [][Next]_vars

\* The page size and its options: every array of up to MaxOptions entries,
\* with the calls that write pageSize or pageSizeOptions.
NextOptions ==
    \/ NgOnInit
    \/ SetPageSize
    \/ SetAnyPageSizeOptions
    \/ ChangePageSize

SpecOptions == Init /\ [][NextOptions]_vars

\* The component when the host never assigns pageIndex: pageIndex is written
\* by the component's own operations only.
NextOwnIndex ==
    \/ NgOnInit
    \/ SetLength
    \/ SetPageSize
    \/ SetPageSizeOptions
    \/ NextPage
    \/ PreviousPage
    \/ FirstPage
    \/ LastPage
    \/ ChangePageSize

SpecOwnIndex == Init /\ [][NextOwnIndex]_vars

\* ------------------------------------------------------------ vocabulary
NavigationOps == {"nextPage", "previousPage", "firstPage", "lastPage"}
OwnOps == NavigationOps \cup {"_changePageSize"}

\* The precondition of the navigation operation `name` in the fields s.
Precondition(name, s) ==
    IF name \in {"nextPage", "lastPage"} THEN hasNextPage(s)
    ELSE hasPreviousPage(s)

IsPositive(x) == IsFinite(x) /\ x.v > 0
IsNonNegative(x) == IsFinite(x) /\ x.v >= 0

\* 0 <= pageIndex <= numberOfPages() in the fields s
InRange(s) ==
    /\ JsGe(s.pageIndex, Num(0))
    /\ JsGe(getNumberOfPages(s), s.pageIndex)

\* pageSize > 0 and 0 <= pageIndex <= ceil(length / pageSize) - 1, on integers
OnAPage(s) ==
    /\ IsNonNegative(s.pageIndex)
    /\ IsPositive(s.pageSize)
    /\ IsFinite(s.length)
    /\ s.pageIndex.v * s.pageSize.v < s.length.v

\* seq is sorted ascending
IsSorted(seq) ==
    \A i \in 1..Len(seq) : \A j \in i..Len(seq) : seq[i].v <= seq[j].v

Elements(seq) == {seq[i] : i \in 1..Len(seq)}

\* ----------------------------------------------------------------- claims

\* C1: _changePageSize(newSize) with pageIndex >= 0, old pageSize > 0 and
\* newSize > 0 sets pageIndex to floor(pageIndex * oldPageSize / newSize), so
\* the old first item lies on the new page, and pageSize becomes newSize.
C1_ChangePageSizeKeepsFirstItem ==
    (/\ op.name = "_changePageSize"
     /\ IsNonNegative(pre.pageIndex)
     /\ IsPositive(pre.pageSize)
     /\ IsPositive(op.arg))
    => LET startIndex == pre.pageIndex.v * pre.pageSize.v
       IN /\ IsFinite(pageIndex)
          /\ pageIndex.v = startIndex \div op.arg.v
          /\ pageIndex.v * op.arg.v <= startIndex
          /\ startIndex < (pageIndex.v + 1) * op.arg.v
          /\ pageSize = op.arg

\* C1 witness: page 2 of size 2 (items 4-5), changed to size 1, is page 4.
C1_Witness ==
    /\ op = [name |-> "_changePageSize", arg |-> Num(1)]
    /\ pre.pageIndex = Num(2)
    /\ pre.pageSize = Num(2)
    /\ pageIndex = Num(4)
    /\ pageSize = Num(1)

C3_FalsePreconditionIsNoOp ==
    (op.name \in NavigationOps /\ ~Precondition(op.name, pre))
    => (This = pre /\ page = <<>>)

\* C3 witness: lastPage() called on the last page (index 1 of 3 items, size 2).
C3_Witness ==
    /\ op.name = "lastPage"
    /\ initialized
    /\ pre.pageIndex = Num(1)
    /\ pre.length = Num(3)
    /\ pre.pageSize = Num(2)
    /\ ~hasNextPage(pre)
    /\ This = pre
    /\ page = <<>>

\* C4: an own operation that is not a no-op emits exactly one PageEvent, and
\* its payload is the pageIndex, pageSize and length the call leaves behind.
C4_OneEventWithFinalState ==
    (\/ op.name = "_changePageSize"
     \/ (op.name \in NavigationOps /\ Precondition(op.name, pre)))
    => /\ Len(page) = 1
       /\ page[1].pageIndex = pageIndex
       /\ page[1].pageSize = pageSize
       /\ page[1].length = length

\* C4 witness: a _changePageSize that changed both pageIndex and pageSize.
C4_Witness ==
    /\ op.name = "_changePageSize"
    /\ initialized
    /\ pre.pageIndex # pageIndex
    /\ pre.pageSize # pageSize
    /\ page = <<[pageIndex |-> pageIndex, pageSize |-> pageSize,
                 length |-> length]>>

\* C5: with its precondition true, nextPage() adds 1 to pageIndex,
\* previousPage() subtracts 1, firstPage() sets 0, lastPage() sets
\* ceil(length / pageSize) - 1, and no other field changes.
C5_NavigationEffect ==
    (op.name \in NavigationOps /\ Precondition(op.name, pre))
    => /\ This = [pre EXCEPT !.pageIndex = pageIndex]
       /\ op.name = "nextPage" =>
            IF IsFinite(pre.pageIndex)
            THEN pageIndex = Num(pre.pageIndex.v + 1)
            ELSE pageIndex = pre.pageIndex
       /\ op.name = "previousPage" =>
            IF IsFinite(pre.pageIndex)
            THEN pageIndex = Num(pre.pageIndex.v - 1)
            ELSE pageIndex = pre.pageIndex
       /\ op.name = "firstPage" => pageIndex = Num(0)
       /\ op.name = "lastPage" =>
            /\ IsFinite(pageIndex)
            /\ IsPositive(pageSize)
            /\ pageIndex.v * pageSize.v < length.v
            /\ length.v <= (pageIndex.v + 1) * pageSize.v

\* C5 witness: lastPage() from page 0 of 3 items of size 1 reaches page 2.
C5_Witness ==
    /\ op.name = "lastPage"
    /\ pre.pageIndex = Num(0)
    /\ length = Num(3)
    /\ pageSize = Num(1)
    /\ pageIndex = Num(2)

\* C6: hasNextPage() is pageIndex < numberOfPages() and hasPreviousPage() is
\* pageIndex >= 1, except that both are false when pageSize is 0; while
\* pageSize is 0 every navigation operation is a no-op and the page count is
\* a non-finite value rather than a fault.
C6_QueriesAndDisabledState ==
    /\ IF pageSize = Num(0)
       THEN /\ ~hasNextPage(This)
            /\ ~hasPreviousPage(This)
            /\ getNumberOfPages(This) \in {NaN, PosInfinity}
       ELSE /\ hasNextPage(This) <=> JsLt(pageIndex, getNumberOfPages(This))
            /\ hasPreviousPage(This) <=> JsGe(pageIndex, Num(1))
    /\ (IsPositive(pageSize) /\ IsFinite(pageIndex)) =>
            /\ hasNextPage(This) <=>
                    (pageIndex.v + 1) * pageSize.v < length.v
            /\ hasPreviousPage(This) <=> pageIndex.v >= 1
    /\ (op.name \in NavigationOps /\ pre.pageSize = Num(0)) =>
            (This = pre /\ page = <<>>)

\* C6 witness: previousPage() on page 2 of 3 items while pageSize is 0.
C6_Witness ==
    /\ op.name = "previousPage"
    /\ initialized
    /\ pre.pageSize = Num(0)
    /\ pre.pageIndex = Num(2)
    /\ pre.length = Num(3)
    /\ This = pre
    /\ page = <<>>

\* C7: once initialized, displayedPageSizeOptions is sorted ascending,
\* contains pageSize, and as a set is pageSizeOptions united with {pageSize}.
C7_DisplayedOptionsDerived ==
    initialized =>
        /\ displayedPageSizeOptions.set
        /\ IsSorted(displayedPageSizeOptions.items)
        /\ pageSize \in Elements(displayedPageSizeOptions.items)
        /\ Elements(displayedPageSizeOptions.items) =
                Elements(pageSizeOptions) \cup {pageSize}

\* C7 witness: options [2, 0] with pageSize 1, left by an assignment of
\* pageSizeOptions, are displayed as [0, 1, 2].
C7_Witness ==
    /\ initialized
    /\ op.name = "pageSizeOptions"
    /\ pageSizeOptions = <<Num(2), Num(0)>>
    /\ pageSize = Num(1)
    /\ displayedPageSizeOptions = Items(<<Num(0), Num(1), Num(2)>>)

\* C8: ngOnInit() replaces an unset or zero pageSize by the first entry of
\* pageSizeOptions, or by 50 when there is none (displayed options [50]),
\* and keeps a non-zero pageSize.
C8_DefaultPageSizeAtInit ==
    op.name = "ngOnInit" =>
        IF pre.pageSize \in {Undefined, Num(0)}
        THEN IF pre.pageSizeOptions # <<>>
             THEN pageSize = pre.pageSizeOptions[1]
             ELSE /\ pageSize = Num(50)
                  /\ displayedPageSizeOptions = Items(<<Num(50)>>)
        ELSE pageSize = pre.pageSize

\* C8 witness: ngOnInit() with nothing configured.
C8_Witness ==
    /\ op.name = "ngOnInit"
    /\ pre.pageSize = Undefined
    /\ pre.pageSizeOptions = <<>>
    /\ pageSize = Num(50)
    /\ displayedPageSizeOptions = Items(<<Num(50)>>)

\* C9 as stated: after _changePageSize(newSize), newSize > 0, pageIndex is
\* never negative or non-finite.
C9_NeverNegativeAfterChangePageSize ==
    (op.name = "_changePageSize" /\ IsPositive(op.arg))
    => IsNonNegative(pageIndex)

\* C9 amended: _changePageSize(newSize), newSize > 0, sets pageIndex to 0
\* when the old pageSize is 0 or unset; a non-negative pageIndex with an old
\* pageSize that is unset or not negative stays non-negative and finite; a
\* negative pageIndex with old pageSize > 0 is not clamped and stays negative.
C9_ZeroOnlyWhenOldSizeFalsy ==
    (op.name = "_changePageSize" /\ IsPositive(op.arg))
    => /\ pre.pageSize \in {Undefined, Num(0)} => pageIndex = Num(0)
       /\ (IsNonNegative(pre.pageIndex)
                /\ (pre.pageSize = Undefined \/ IsNonNegative(pre.pageSize)))
            => IsNonNegative(pageIndex)
       /\ (IsFinite(pre.pageIndex) /\ pre.pageIndex.v < 0
                /\ IsPositive(pre.pageSize))
            => (IsFinite(pageIndex) /\ pageIndex.v < 0)

\* C9 witness: page 2 with pageSize still unset, then _changePageSize(1).
C9_Witness ==
    /\ op = [name |-> "_changePageSize", arg |-> Num(1)]
    /\ pre.pageSize = Undefined
    /\ pre.pageIndex = Num(2)
    /\ pageIndex = Num(0)

\* C10: assigning length or pageIndex emits nothing, stores the number
\* given, and leaves every other field as it was, in range or not.
C10_AssignmentDoesNotRevalidate ==
    /\ op.name = "length" =>
            /\ page = <<>>
            /\ This = [pre EXCEPT !.length = length]
            /\ IsFinite(op.arg) => length = op.arg
    /\ op.name = "pageIndex" =>
            /\ page = <<>>
            /\ This = [pre EXCEPT !.pageIndex = pageIndex]
            /\ IsFinite(op.arg) => pageIndex = op.arg

\* C10 witness: length lowered from 3 to 1 on page 2 of size 1; pageIndex
\* is left beyond the last page 0.
C10_Witness ==
    /\ op = [name |-> "length", arg |-> Num(1)]
    /\ initialized
    /\ pre.length = Num(3)
    /\ pageSize = Num(1)
    /\ pageIndex = Num(2)
    /\ OnAPage(pre)
    /\ ~OnAPage(This)
    /\ page = <<>>

\* C11: before ngOnInit() an assignment of pageSize or pageSizeOptions derives
\* nothing: displayedPageSizeOptions stays unset and a zero pageSize is kept;
\* ngOnInit() makes the first derivation; every later assignment of pageSize
\* or pageSizeOptions leaves the options derived from the values it stored.
C11_DerivationStartsAtInit ==
    /\ ~initialized =>
            /\ displayedPageSizeOptions = Unset
            /\ op.name = "pageSize" => pageSize = coerceNumberProperty(op.arg)
            /\ op.name = "pageSizeOptions" => pageSize = pre.pageSize
            /\ op.name = "constructor" => pageSize = Undefined
    /\ op.name = "ngOnInit" =>
            /\ ~pre.initialized
            /\ pre.displayedPageSizeOptions = Unset
            /\ pageSizeOptions = pre.pageSizeOptions
            /\ displayedPageSizeOptions.set
    /\ (initialized /\ op.name \in {"pageSize", "pageSizeOptions"}) =>
            /\ displayedPageSizeOptions.set
            /\ Elements(displayedPageSizeOptions.items) =
                    Elements(pageSizeOptions) \cup {pageSize}
            /\ op.name = "pageSize" /\ ~Falsy(op.arg) => pageSize = op.arg

\* C11 witness: pageSize 0 and then options [2, 1] assigned before ngOnInit().
C11_Witness ==
    /\ ~initialized
    /\ op.name = "pageSizeOptions"
    /\ pageSizeOptions = <<Num(2), Num(1)>>
    /\ pageSize = Num(0)
    /\ displayedPageSizeOptions = Unset

\* C12: with pageIndex >= 0, length > 0 and pageSize > 0, nextPage() adds
\* exactly 1 to pageIndex and emits one event while pageIndex is below
\* ceil(length / pageSize) - 1, and is a no-op that emits nothing from there on.
C12_NextPageUntilLastPage ==
    (/\ op.name = "nextPage"
     /\ IsNonNegative(pre.pageIndex)
     /\ IsPositive(pre.length)
     /\ IsPositive(pre.pageSize))
    => IF (pre.pageIndex.v + 1) * pre.pageSize.v < pre.length.v
       THEN /\ pageIndex = Num(pre.pageIndex.v + 1)
            /\ length = pre.length
            /\ pageSize = pre.pageSize
            /\ Len(page) = 1
       ELSE /\ This = pre
            /\ page = <<>>

\* C12 witness: nextPage() on the last page 2 of 3 items of size 1.
C12_Witness ==
    /\ op.name = "nextPage"
    /\ pre.pageIndex = Num(2)
    /\ pre.length = Num(3)
    /\ pre.pageSize = Num(1)
    /\ pageIndex = Num(2)
    /\ page = <<>>

C15_RangePreservedStepwise ==
    [][(/\ op'.name \in OwnOps
        /\ op'.name = "_changePageSize" => IsPositive(op'.arg)
        /\ IsPositive(length)
        /\ IsPositive(pageSize)
        /\ InRange(This))
       => (/\ IsPositive(length')
           /\ IsPositive(pageSize')
           /\ JsGe(pageIndex', Num(0))
           /\ JsGe(getNumberOfPages(This'), pageIndex'))]_vars

\* C15 witness: lastPage() moved from page 0 in range to page 2 in range.
C15_Witness ==
    /\ op.name = "lastPage"
    /\ IsPositive(pre.length)
    /\ IsPositive(pre.pageSize)
    /\ InRange(pre)
    /\ pre.pageIndex = Num(0)
    /\ pageIndex = Num(2)
    /\ InRange(This)

\* C16: after ngOnInit() a zero pageSize does not persist: assigning
\* pageSize 0 or calling _changePageSize(0) stores pageSizeOptions[0], or 50
\* when there are no options; an initialized component has pageSize 0 only
\* when the first entry of pageSizeOptions is 0.
C16_ZeroPageSizeResolved ==
    /\ (initialized /\ Falsy(pageSize)) =>
            /\ pageSizeOptions # <<>>
            /\ pageSizeOptions[1] = Num(0)
            /\ pageSize = Num(0)
    /\ (/\ pre.initialized
        /\ op.name \in {"pageSize", "_changePageSize"}
        /\ Falsy(coerceNumberProperty(op.arg))) =>
            pageSize = IF pageSizeOptions # <<>>
                       THEN pageSizeOptions[1]
                       ELSE Num(DEFAULT_PAGE_SIZE)

\* C16 witness: pageSize 0 assigned after ngOnInit() with options [2, 1]
\* became 2.
C16_Witness ==
    /\ pre.initialized
    /\ op = [name |-> "pageSize", arg |-> Num(0)]
    /\ pre.pageSize = Num(1)
    /\ pageSizeOptions = <<Num(2), Num(1)>>
    /\ pageSize = Num(2)

\* pageIndex is above getNumberOfPages() in the fields s
Exceeds(s) == JsLt(getNumberOfPages(s), s.pageIndex)

\* C17 as stated: when pageIndex exceeds getNumberOfPages() with pageSize > 0,
\* only firstPage(), _changePageSize() or an assignment brings pageIndex back
\* into range in one step: after nextPage(), lastPage() or previousPage() it
\* still exceeds.
C17_OnlyResetReturnsToRange ==
    (/\ op.name \in {"nextPage", "lastPage", "previousPage"}
     /\ IsPositive(pre.pageSize)
     /\ Exceeds(pre))
    => Exceeds(This)

\* C17: when pageIndex exceeds getNumberOfPages() with pageSize > 0,
\* nextPage() and lastPage() change nothing and emit nothing; previousPage()
\* on a pageIndex >= 1 subtracts exactly 1 without clamping and emits one
\* event, so pageIndex is back in range exactly when it was
\* getNumberOfPages() + 1; previousPage() on pageIndex 0 changes nothing; the
\* lifecycle calls leave pageIndex out of range.
C17_OutOfRangeNavigation ==
    (/\ IsPositive(pre.pageSize)
     /\ IsFinite(pre.pageIndex)
     /\ Exceeds(pre))
    => /\ op.name \in {"nextPage", "lastPage"} =>
            /\ This = pre
            /\ page = <<>>
       /\ op.name = "previousPage" =>
            IF pre.pageIndex.v >= 1
            THEN /\ pageIndex = Num(pre.pageIndex.v - 1)
                 /\ length = pre.length
                 /\ pageSize = pre.pageSize
                 /\ Len(page) = 1
                 /\ InRange(This) <=>
                        pre.pageIndex = JsAdd(getNumberOfPages(pre), 1)
                 /\ Exceeds(This) <=> ~InRange(This)
            ELSE /\ This = pre
                 /\ page = <<>>
       /\ op.name \in {"ngOnInit", "ngOnDestroy", "_intl.changes"} =>
            Exceeds(This)

\* C17 witness: previousPage() went from page 3 to page 2 of a collection
\* whose last page is 0.
C17_Witness ==
    /\ op.name = "previousPage"
    /\ length = Num(1)
    /\ pageSize = Num(1)
    /\ pre.pageIndex = Num(3)
    /\ pageIndex = Num(2)
    /\ Exceeds(This)

\* C18: _changePageSize(n) emits exactly one event on every call, carrying
\* the fields it leaves: also when n is the current pageSize and nothing
\* changes, and also before ngOnInit().
C18_ChangePageSizeAlwaysEmits ==
    op.name = "_changePageSize" =>
        /\ Len(page) = 1
        /\ page[1] = [pageIndex |-> pageIndex,
                      pageSize |-> pageSize,
                      length |-> length]

\* C18 witness: before ngOnInit(), _changePageSize with the current pageSize
\* changed nothing and emitted one event.
C18_Witness ==
    /\ op.name = "_changePageSize"
    /\ ~initialized
    /\ op.arg = pre.pageSize
    /\ This = pre
    /\ Len(page) = 1

\* C19: nextPage() then previousPage() is a round trip from a state with
\* pageIndex >= 0 where hasNextPage() holds, and previousPage() then
\* nextPage() is one from a state where hasPreviousPage() holds and
\* pageIndex <= getNumberOfPages(): pageIndex, pageSize and length are
\* restored and the two calls emit exactly two events.
C19_NextPreviousRoundTrip ==
    [][/\ (/\ op.name = "nextPage"
           /\ JsGe(pre.pageIndex, Num(0))
           /\ hasNextPage(pre)
           /\ op'.name = "previousPage")
          => (/\ pageIndex' = pre.pageIndex
              /\ pageSize' = pre.pageSize
              /\ length' = pre.length
              /\ Len(page) + Len(page') = 2)
       /\ (/\ op.name = "previousPage"
           /\ hasPreviousPage(pre)
           /\ JsGe(getNumberOfPages(pre), pre.pageIndex)
           /\ op'.name = "nextPage")
          => (/\ pageIndex' = pre.pageIndex
              /\ pageSize' = pre.pageSize
              /\ length' = pre.length
              /\ Len(page) + Len(page') = 2)]_vars

\* C19 witness: nextPage() went from page 1 to page 2, from where
\* previousPage() returns to the fields before it.
C19_Witness ==
    /\ op.name = "nextPage"
    /\ hasNextPage(pre)
    /\ pre.pageIndex = Num(1)
    /\ pageIndex = Num(2)
    /\ Len(page) = 1
    /\ previousPage(This) = emitPageEvent(pre)

\* C20: firstPage() and lastPage() are idempotent: right after firstPage()
\* hasPreviousPage() is false and right after lastPage() hasNextPage() is
\* false, and a second consecutive call changes no field and emits nothing.
C20_FirstAndLastIdempotent ==
    [][/\ op.name = "firstPage" => ~hasPreviousPage(This)
       /\ op.name = "lastPage" => ~hasNextPage(This)
       /\ (op.name = "firstPage" /\ op'.name = "firstPage")
          => (This' = This /\ page' = <<>>)
       /\ (op.name = "lastPage" /\ op'.name = "lastPage")
          => (This' = This /\ page' = <<>>)]_vars

\* C20 witness: lastPage() moved to the last page, where a second lastPage()
\* returns without a change.
C20_Witness ==
    /\ op.name = "lastPage"
    /\ Len(page) = 1
    /\ pre.pageIndex # pageIndex
    /\ ~hasNextPage(This)
    /\ lastPage(This) = Silent(This)

====
